---------------------------- MODULE Spec2Model ----------------------------
(***************************************************************************)
(* A model of wslproxybuild/build.py: main(), the output loops of          *)
(* process_output() and run_executable(), the SIGINT handler, and the      *)
(* text functions format_message() and windows_to_wsl().                   *)
(*                                                                         *)
(* Text is a sequence of one-character strings.  The escape character      *)
(* (octal 033) is the one-element token "ESC".  A path object (pathlib)    *)
(* is the sequence of its segments, each segment a text.                   *)
(***************************************************************************)
EXTENDS Integers, Sequences, FiniteSets, TLC

(***************************************************************************)
(* Character classes of Python's re module, restricted to ASCII.           *)
(***************************************************************************)
UpperCase ==
    {"A","B","C","D","E","F","G","H","I","J","K","L","M",
     "N","O","P","Q","R","S","T","U","V","W","X","Y","Z"}

LowerCase ==
    {"a","b","c","d","e","f","g","h","i","j","k","l","m",
     "n","o","p","q","r","s","t","u","v","w","x","y","z"}

Digits ==
    {"0","1","2","3","4","5","6","7","8","9"}

\* \s of the re module (ASCII part)
Whitespace ==
    {" ", "\t", "\n", "\r", "\f"}

\* \w of the re module (ASCII part)
WordChars ==
    UpperCase \cup LowerCase \cup Digits \cup {"_"}

\* str.lower() on one character
Lower(c) ==
    CASE c = "A" -> "a" [] c = "B" -> "b" [] c = "C" -> "c" [] c = "D" -> "d"
      [] c = "E" -> "e" [] c = "F" -> "f" [] c = "G" -> "g" [] c = "H" -> "h"
      [] c = "I" -> "i" [] c = "J" -> "j" [] c = "K" -> "k" [] c = "L" -> "l"
      [] c = "M" -> "m" [] c = "N" -> "n" [] c = "O" -> "o" [] c = "P" -> "p"
      [] c = "Q" -> "q" [] c = "R" -> "r" [] c = "S" -> "s" [] c = "T" -> "t"
      [] c = "U" -> "u" [] c = "V" -> "v" [] c = "W" -> "w" [] c = "X" -> "x"
      [] c = "Y" -> "y" [] c = "Z" -> "z" [] OTHER -> c

(***************************************************************************)
(* Generic text helpers (str methods the code calls).                      *)
(***************************************************************************)
\* s[i:] starts with pat
StartsAt(s, i, pat) ==
    /\ i + Len(pat) - 1 <= Len(s)
    /\ \A k \in 1..Len(pat) : s[i + k - 1] = pat[k]

\* the first index >= i whose character is in stops, or Len(s)+1
FirstIn(s, i, stops) ==
    LET hits == {k \in i..Len(s) : s[k] \in stops}
    IN  IF hits = {} THEN Len(s) + 1
        ELSE CHOOSE k \in hits : \A h \in hits : k <= h

\* the first index >= i whose character is NOT in cls, or Len(s)+1
FirstNotIn(s, i, cls) ==
    LET hits == {k \in i..Len(s) : s[k] \notin cls}
    IN  IF hits = {} THEN Len(s) + 1
        ELSE CHOOSE k \in hits : \A h \in hits : k <= h

\* str.rstrip()
rstrip(s) ==
    LET keep == {k \in 1..Len(s) : s[k] \notin Whitespace}
    IN  IF keep = {} THEN <<>>
        ELSE SubSeq(s, 1, CHOOSE k \in keep : \A h \in keep : h <= k)

\* str.replace(pat, rep): every non-overlapping occurrence, left to right
RECURSIVE ReplaceFrom(_, _, _, _)
ReplaceFrom(s, i, pat, rep) ==
    IF i > Len(s) THEN <<>>
    ELSE IF StartsAt(s, i, pat)
         THEN rep \o ReplaceFrom(s, i + Len(pat), pat, rep)
         ELSE <<s[i]>> \o ReplaceFrom(s, i + 1, pat, rep)

\* str.join(sep, parts)
RECURSIVE Join(_, _)
Join(sep, parts) ==
    IF parts = <<>> THEN <<>>
    ELSE IF Len(parts) = 1 THEN parts[1]
    ELSE parts[1] \o sep \o Join(sep, Tail(parts))

\* the segments of s between separators, empty segments included
RECURSIVE Split(_, _)
Split(s, seps) ==
    LET e == FirstIn(s, 1, seps)
    IN  IF e > Len(s) THEN <<s>>
        ELSE <<SubSeq(s, 1, e - 1)>> \o Split(SubSeq(s, e + 1, Len(s)), seps)

(***************************************************************************)
(* C(k): the terminal control codes.                                       *)
(***************************************************************************)
C(k) ==
    CASE k = "endc"    -> <<"ESC","[","m">>
      [] k = "red"     -> <<"ESC","[","3","1","m">>
      [] k = "boldred" -> <<"ESC","[","1",";","3","1","m">>
      [] k = "green"   -> <<"ESC","[","3","2","m">>
      [] k = "yellow"  -> <<"ESC","[","3","3","m">>
      [] k = "blue"    -> <<"ESC","[","3","4","m">>
      [] k = "cyan"    -> <<"ESC","[","3","6","m">>


(***************************************************************************)
(* pathlib.                                                                *)
(* A links state is the set of its symbolic links <<link, target>>,   *)
(* both absolute and written as segment sequences, the target already      *)
(* free of links.                                                          *)
(***************************************************************************)
\* PureWindowsPath(text) for a text that starts with <letter>:\ , the only
\* texts the two patterns of the code hand to it: a drive, and the parts
\* after the anchor.  "/" is a separator too; empty parts and "." parts are
\* dropped by the parser.
PureWindowsPath(text) ==
    [drive |-> SubSeq(text, 1, 2),
     parts |-> SelectSeq(Split(SubSeq(text, 3, Len(text)), {"\\", "/"}),
                         LAMBDA seg : seg # <<>> /\ seg # <<".">>)]

\* PurePath.as_posix() of a relative path
as_posix(parts) ==
    IF parts = <<>> THEN <<".">> ELSE Join(<<"/">>, parts)

\* Path(text) for an absolute POSIX text: its segments
Path(text) ==
    SelectSeq(Split(text, {"/"}), LAMBDA seg : seg # <<>> /\ seg # <<".">>)

\* str(path) of an absolute POSIX path
str(path) ==
    <<"/">> \o Join(<<"/">>, path)

\* the target of link p
LinkTarget(links, p) ==
    (CHOOSE l \in links : l[1] = p)[2]

\* Path.resolve() (os.path.realpath, strict=False): ".." pops the last
\* segment of what is resolved so far, a prefix that is a symbolic link is
\* replaced by its target.
RECURSIVE realpath(_, _, _)
realpath(done, rest, links) ==
    IF rest = <<>> THEN done
    ELSE LET name == Head(rest)
             np   == Append(done, name)
         IN  IF name = <<".", ".">>
             THEN realpath(IF done = <<>> THEN <<>>
                           ELSE SubSeq(done, 1, Len(done) - 1),
                           Tail(rest), links)
             ELSE IF \E l \in links : l[1] = np
             THEN realpath(LinkTarget(links, np), Tail(rest), links)
             ELSE realpath(np, Tail(rest), links)

resolve(path, links) ==
    realpath(<<>>, path, links)

windows_to_wsl(win_path) ==
    LET drive           == <<Lower(win_path.drive[1])>>
        posix_remainder == as_posix(win_path.parts)
    IN  Path(<<"/","m","n","t","/">> \o drive \o <<"/">> \o posix_remainder)

(***************************************************************************)
(* format_message                                                          *)
(***************************************************************************)
BuildSucceeded ==
    <<"B","u","i","l","d"," ","s","u","c","c","e","e","d","e","d",".">>

WarningS ==
    <<"W","a","r","n","i","n","g","(","s",")">>

ErrorS ==
    <<"E","r","r","o","r","(","s",")">>

error_word ==
    <<"e","r","r","o","r">>

\* \berror\b with re.IGNORECASE matches at i
ErrorWordAt(s, i) ==
    /\ i + 4 <= Len(s)
    /\ \A k \in 1..5 : Lower(s[i + k - 1]) = error_word[k]
    /\ (i = 1 \/ s[i - 1] \notin WordChars)
    /\ (i + 5 > Len(s) \/ s[i + 5] \notin WordChars)

\* re.sub(r'\berror\b', boldred error endc, msg, flags=re.IGNORECASE)
RECURSIVE SubError(_, _)
SubError(s, i) ==
    IF i > Len(s) THEN <<>>
    ELSE IF ErrorWordAt(s, i)
         THEN C("boldred") \o error_word \o C("endc") \o SubError(s, i + 5)
         ELSE <<s[i]>> \o SubError(s, i + 1)

\* the drive letters windows_path_pattern accepts: [A-Z]
windows_path_drives ==
    UpperCase

\* windows_path_pattern ([A-Z]:\\[^\s\):]+) matched at i: the index of the
\* last character of the match, or 0
windows_path_end(s, i) ==
    IF /\ i + 3 <= Len(s)
       /\ s[i] \in windows_path_drives
       /\ s[i + 1] = ":"
       /\ s[i + 2] = "\\"
       /\ s[i + 3] \notin (Whitespace \cup {")", ":"})
    THEN FirstIn(s, i + 3, Whitespace \cup {")", ":"}) - 1
    ELSE 0

replace_with_wsl(win_path, links) ==
    str(resolve(windows_to_wsl(PureWindowsPath(win_path)), links))

\* windows_path_pattern.sub(replace_with_wsl, formatted_msg)
RECURSIVE SubPaths(_, _, _)
SubPaths(s, i, links) ==
    IF i > Len(s) THEN <<>>
    ELSE LET e == windows_path_end(s, i)
         IN  IF e # 0
             THEN replace_with_wsl(SubSeq(s, i, e), links)
                      \o SubPaths(s, e + 1, links)
             ELSE <<s[i]>> \o SubPaths(s, i + 1, links)

format_message(msg, links) ==
    LET m1 == ReplaceFrom(msg, 1, BuildSucceeded,
                          C("green") \o BuildSucceeded \o C("endc"))
        m2 == ReplaceFrom(m1, 1, WarningS,
                          C("yellow") \o WarningS \o C("endc"))
        m3 == ReplaceFrom(m2, 1, ErrorS,
                          C("boldred") \o ErrorS \o C("endc"))
        formatted_msg == SubError(m3, 1)
    IN  SubPaths(formatted_msg, 1, links)

(***************************************************************************)
(* The diagnostic pattern of process_output and the body of its loop.      *)
(***************************************************************************)
NoMatch ==
    [matched |-> FALSE, full_path |-> <<>>, line |-> <<>>, col |-> <<>>,
     message |-> <<>>]

\* the message group: ":" is at index colon; \s* then .* (to the end of the
\* line)
MessageAfter(s, colon) ==
    LET b == FirstNotIn(s, colon + 1, Whitespace)
        e == FirstIn(s, b, {"\n"})
    IN  SubSeq(s, b, e - 1)

\* the pattern matched with its first character at index i.  [^:(]+ is
\* greedy and stops before the first ":" or "("; a shorter path is followed
\* by neither "(" nor ":", so backtracking adds no match.  A group that did
\* not take part (None) is the empty text.
pattern_at(s, i) ==
    IF ~ (/\ i + 3 <= Len(s)
          /\ s[i] \in (UpperCase \cup LowerCase)
          /\ s[i + 1] = ":"
          /\ s[i + 2] = "\\"
          /\ s[i + 3] \notin {":", "("})
    THEN NoMatch
    ELSE LET e == FirstIn(s, i + 3, {":", "("})
         IN  IF e > Len(s) THEN NoMatch
             ELSE IF s[e] = ":"
             THEN [matched |-> TRUE, full_path |-> SubSeq(s, i, e - 1),
                   line |-> <<>>, col |-> <<>>,
                   message |-> MessageAfter(s, e)]
             ELSE LET c1 == FirstNotIn(s, e + 1, Digits)
                      c2 == FirstNotIn(s, c1 + 1, Digits)
                  IN  IF /\ c1 > e + 1
                         /\ c1 <= Len(s) /\ s[c1] = ","
                         /\ c2 > c1 + 1
                         /\ c2 + 1 <= Len(s)
                         /\ s[c2] = ")" /\ s[c2 + 1] = ":"
                      THEN [matched |-> TRUE,
                            full_path |-> SubSeq(s, i, e - 1),
                            line |-> SubSeq(s, e + 1, c1 - 1),
                            col |-> SubSeq(s, c1 + 1, c2 - 1),
                            message |-> MessageAfter(s, c2 + 1)]
                      ELSE NoMatch

\* m = re.search(pattern, line, re.VERBOSE): the leftmost match
re_search(s) ==
    LET starts == {i \in 1..Len(s) : pattern_at(s, i).matched}
    IN  IF starts = {} THEN NoMatch
        ELSE pattern_at(s, CHOOSE i \in starts : \A j \in starts : i <= j)

\* wsl_parsed: the path with the position the code appends
wsl_parsed(wsl_path, line_num, col_num) ==
    IF line_num # <<>> /\ col_num # <<>>
    THEN wsl_path \o <<":">> \o line_num \o <<":">> \o col_num
    ELSE IF line_num # <<>>
    THEN wsl_path \o <<":">> \o line_num
    ELSE wsl_path

\* wsl_path = windows_to_wsl(PureWindowsPath(full_path)).resolve()
wsl_path(full_path, links) ==
    resolve(windows_to_wsl(PureWindowsPath(full_path)), links)

\* what one turn of the loop of process_output writes for the text read
\* (lines 124-155): print() ends the matched form with a newline, the
\* pass-through form keeps the line's own ending.
printed(output, links) ==
    LET line == rstrip(output)
        m    == re_search(line)
    IN  IF m.matched
        THEN LET msg == format_message(m.message, links)
             IN  wsl_parsed(str(wsl_path(m.full_path, links)),
                            m.line, m.col)
                     \o <<":", " ">> \o msg \o <<"\n">>
        ELSE format_message(output, links)


(***************************************************************************)
(* Bounds of the model.                                                    *)
(***************************************************************************)
\* lines the child process writes in one run
MaxLines == 3

\* the child's exit status is drawn from 0..MaxStatus
MaxStatus == 2

\* chunks in one line handed to the text functions
MaxChunks == 3

(***************************************************************************)
(* The lines a child process writes in the process model: a diagnostic     *)
(* with a position, a line with no path, an empty line.                    *)
(***************************************************************************)
LifeLines ==
    { <<"C",":","\\","a","(","1",",","2",")",":"," ","e">>,
      <<"o","k">>,
      <<>> }

\* print(msg) and print(cmd) of main, before the child is started (their
\* text is abbreviated)
announce ==
    << <<"C","o","m","p","i","l","i","n","g","\n">>,
       <<"c","m","d","\n">> >>

no_project_msg ==
    <<"N","o"," ","p","r","o","j","e","c","t","\n">>

no_framework_msg ==
    <<"N","o"," ","f","r","a","m","e","w","o","r","k","\n">>

no_compiler_msg ==
    <<"N","o"," ","c","o","m","p","i","l","e","r","\n">>

exe_not_found_msg ==
    <<"E","x","e","c","u","t","a","b","l","e"," ","n","o","t"," ",
      "f","o","u","n","d",".","\n">>

\* what the handler writes
sigint_msg ==
    <<"\n","e","x","i","t","\n">>

VARIABLES
    pc,            \* where the program is
    args_run,      \* args.run
    framework_ver, \* main's framework_ver ("" before it is read)
    child,         \* "none", "alive", "exited": the process Popen started
    child_status,  \* its exit status, -1 while it has none
    pipe_open,     \* some process still holds the write end of p.stdout
    emitted,       \* every text written to the pipe, in order
    nread,         \* how many of them readline has returned
    output,        \* the loop's variable output
    written,       \* every text written to sys.stdout, in order
    nflushed,      \* how many of them have left sys.stdout's buffer
    stderr,        \* every text written to sys.stderr
    isatty,        \* sys.stdout is a terminal (line buffered)
    exit_code,     \* the program's exit code, -1 while it runs
    interrupted,   \* the SIGINT handler has run
    fs,            \* the symbolic links of the local filesystem
    f_m,           \* text functions: the match of the diagnostic pattern
    f_wsl,         \* text functions: wsl_path of a matched line
    f_out,         \* text functions: the text printed for output
    f_pc           \* text functions: "in" before, "out" after

vars ==
    <<pc, args_run, framework_ver, child, child_status, pipe_open, emitted,
      nread, output, written, nflushed, stderr, isatty, exit_code,
      interrupted, fs, f_m, f_wsl, f_out, f_pc>>

proc_vars ==
    <<pc, args_run, framework_ver, child, child_status, pipe_open, emitted,
      nread, output, written, nflushed, stderr, isatty, exit_code,
      interrupted>>

fmt_vars ==
    <<f_m, f_wsl, f_out, f_pc>>

child_vars ==
    <<child, child_status, pipe_open, emitted>>

\* the texts in the pipe that readline has not returned yet
pipe ==
    SubSeq(emitted, nread + 1, Len(emitted))

Init ==
    /\ pc = "get_args"
    /\ args_run = FALSE
    /\ framework_ver = ""
    /\ child = "none"
    /\ child_status = -1
    /\ pipe_open = FALSE
    /\ emitted = <<>>
    /\ nread = 0
    /\ output = <<>>
    /\ written = <<>>
    /\ nflushed = 0
    /\ stderr = <<>>
    /\ isatty \in BOOLEAN
    /\ exit_code = -1
    /\ interrupted = FALSE
    /\ fs = {}
    /\ f_m = NoMatch
    /\ f_wsl = <<>>
    /\ f_out = <<>>
    /\ f_pc = "idle"

(***************************************************************************)
(* sys.stdout.  A write to a terminal leaves the buffer with its newline;  *)
(* otherwise it stays buffered until a flush, the buffer filling up        *)
(* (spill), or the interpreter's exit.                                     *)
(***************************************************************************)
HasNewline(text) ==
    \E k \in 1..Len(text) : text[k] = "\n"

\* print(text, end=''): nothing is written for the empty text
print_to(w, text) ==
    IF text = <<>> THEN w ELSE Append(w, text)

\* nflushed after writing text onto w, nf of w's texts being out already
after_write(w, nf, text, spill) ==
    IF text = <<>> THEN nf
    ELSE IF (isatty /\ HasNewline(text)) \/ spill THEN Len(w) + 1
    ELSE nf

\* the interpreter ends with exit code c: sys.stdout is flushed
Exit(c, w) ==
    /\ pc' = "exited"
    /\ exit_code' = c
    /\ written' = w
    /\ nflushed' = Len(w)


(***************************************************************************)
(* main                                                                    *)
(***************************************************************************)
\* signal(SIGINT, sigint) is done; args = get_args()
get_args ==
    /\ pc = "get_args"
    /\ \E r \in BOOLEAN : args_run' = r
    /\ pc' = "find_project_file"
    /\ UNCHANGED <<framework_ver, child_vars, nread, output, written,
                   nflushed, stderr, isatty, exit_code, interrupted, fs,
                   fmt_vars>>

\* project_file = find_project_file(); None: "No project file found."
find_project_file ==
    /\ pc = "find_project_file"
    /\ \E found \in BOOLEAN :
          IF found
          THEN /\ pc' = "get_framework_version"
               /\ UNCHANGED <<stderr, exit_code, written, nflushed>>
          ELSE /\ stderr' = Append(stderr, no_project_msg)
               /\ Exit(1, written)
    /\ UNCHANGED <<args_run, framework_ver, child_vars, nread, output,
                   isatty, interrupted, fs, fmt_vars>>

\* framework_ver = get_framework_version(project_file); then the ignore
\* list and the output path are read
get_framework_version ==
    /\ pc = "get_framework_version"
    /\ \E v \in {"", "net6.0", "v4.8"} :
          IF v # ""
          THEN /\ framework_ver' = v
               /\ pc' = "mode"
               /\ UNCHANGED <<stderr, exit_code, written, nflushed>>
          ELSE /\ stderr' = Append(stderr, no_framework_msg)
               /\ Exit(1, written)
               /\ UNCHANGED framework_ver
    /\ UNCHANGED <<args_run, child_vars, nread, output, isatty, interrupted,
                   fs, fmt_vars>>

\* Popen(..., stdout=PIPE, stderr=STDOUT): the child runs, its pipe is open
Popen ==
    /\ child' = "alive"
    /\ child_status' = -1
    /\ pipe_open' = TRUE
    /\ emitted' = <<>>

\* if args.run: exe_path = find_executable(...); run_executable(exe_path,
\* args.run_args) up to its Popen; no executable: print(...), sys.exit(1)
run_executable ==
    /\ pc = "mode"
    /\ args_run
    /\ \E found \in BOOLEAN :
          IF found
          THEN /\ Popen
               /\ pc' = "run_readline"
               /\ UNCHANGED <<written, nflushed, exit_code>>
          ELSE /\ Exit(1, Append(written, exe_not_found_msg))
               /\ UNCHANGED child_vars
    /\ UNCHANGED <<args_run, framework_ver, nread, output, stderr, isatty,
                   interrupted, fs, fmt_vars>>

\* cc_hint names the variable the framework needs
cc_hint(v) ==
    IF v = "net6.0" THEN <<"D","O","T","N","E","T","\n">>
    ELSE <<"M","S","B","U","I","L","D","\n">>

\* CC = os.getenv('DOTNET') or os.getenv('MSBUILD'); None: "No compiler
\* command."
select_compiler ==
    /\ pc = "mode"
    /\ ~ args_run
    /\ \E cc_set \in BOOLEAN :
          IF cc_set
          THEN /\ pc' = "announce"
               /\ UNCHANGED <<stderr, exit_code, written, nflushed>>
          ELSE /\ stderr' = Append(stderr,
                                   no_compiler_msg \o cc_hint(framework_ver))
               /\ Exit(1, written)
    /\ UNCHANGED <<args_run, framework_ver, child_vars, nread, output,
                   isatty, interrupted, fs, fmt_vars>>

\* print(msg); print(cmd); p = subprocess.Popen(cmd, ...)
build_popen ==
    /\ pc = "announce"
    /\ written' = written \o announce
    /\ \E spill \in BOOLEAN :
          nflushed' = IF isatty \/ spill THEN Len(written') ELSE nflushed
    /\ Popen
    /\ pc' = "po_readline"
    /\ UNCHANGED <<args_run, framework_ver, nread, output, stderr, isatty,
                   exit_code, interrupted, fs, fmt_vars>>

(***************************************************************************)
(* The read loops.                                                         *)
(***************************************************************************)
\* p.poll(): the exit status, -1 (None) while the child runs
poll ==
    IF child = "exited" THEN child_status ELSE -1

\* a loop that ends at any empty read
loop_exit_on_empty(out, polled) ==
    out = <<>>

\* a loop that ends as soon as the child is gone
loop_exit_on_dead(out, polled) ==
    out = <<>> \/ polled # -1

\* if output == '' and p.poll() is not None: break
loop_exit(out, polled) ==
    out = <<>> /\ polled # -1

\* output = p.stdout.readline(): blocks while the pipe is empty and open;
\* the empty text at end of file
readline(next) ==
    /\ pipe # <<>> \/ ~ pipe_open
    /\ IF pipe # <<>>
       THEN output' = Head(pipe) /\ nread' = nread + 1
       ELSE output' = <<>> /\ UNCHANGED nread
    /\ pc' = next
    /\ UNCHANGED <<args_run, framework_ver, child_vars, written, nflushed,
                   stderr, isatty, exit_code, interrupted, fs, fmt_vars>>

po_readline ==
    /\ pc = "po_readline"
    /\ readline("po_test")

po_test ==
    /\ pc = "po_test"
    /\ pc' = IF loop_exit(output, poll) THEN "po_return" ELSE "po_body"
    /\ UNCHANGED <<args_run, framework_ver, child_vars, nread, output,
                   written, nflushed, stderr, isatty, exit_code, interrupted,
                   fs, fmt_vars>>

\* sys.stdout.flush(), then the line is matched, formatted and printed
po_body ==
    /\ pc = "po_body"
    /\ LET text == printed(output, fs)
       IN  /\ written' = print_to(written, text)
           /\ \E spill \in BOOLEAN :
                 nflushed' = after_write(written, Len(written), text, spill)
    /\ pc' = "po_readline"
    /\ UNCHANGED <<args_run, framework_ver, child_vars, nread, output,
                   stderr, isatty, exit_code, interrupted, fs, fmt_vars>>

\* process_output returns; main: return 0; sys.exit(main())
po_return ==
    /\ pc = "po_return"
    /\ Exit(0, written)
    /\ UNCHANGED <<args_run, framework_ver, child_vars, nread, output,
                   stderr, isatty, interrupted, fs, fmt_vars>>

run_readline ==
    /\ pc = "run_readline"
    /\ readline("run_test")

run_test ==
    /\ pc = "run_test"
    /\ pc' = IF loop_exit(output, poll) THEN "run_return" ELSE "run_body"
    /\ UNCHANGED <<args_run, framework_ver, child_vars, nread, output,
                   written, nflushed, stderr, isatty, exit_code, interrupted,
                   fs, fmt_vars>>

\* print(output, end='')
run_body ==
    /\ pc = "run_body"
    /\ written' = print_to(written, output)
    /\ \E spill \in BOOLEAN :
          nflushed' = after_write(written, nflushed, output, spill)
    /\ pc' = "run_readline"
    /\ UNCHANGED <<args_run, framework_ver, child_vars, nread, output,
                   stderr, isatty, exit_code, interrupted, fs, fmt_vars>>

\* run_executable returns; main: return 0; sys.exit(main())
run_return ==
    /\ pc = "run_return"
    /\ Exit(0, written)
    /\ UNCHANGED <<args_run, framework_ver, child_vars, nread, output,
                   stderr, isatty, interrupted, fs, fmt_vars>>

(***************************************************************************)
(* SIGINT.  The handler is installed before anything else in main; it runs *)
(* between two steps of the program.  sys.exit(0) raises SystemExit, which *)
(* neither except clause of run_executable catches.                        *)
(***************************************************************************)
\* a handler that writes and returns to the interrupted code
sigint_returns ==
    /\ pc # "exited"
    /\ ~ interrupted
    /\ interrupted' = TRUE
    /\ written' = Append(written, sigint_msg)
    /\ nflushed' = IF isatty THEN Len(written') ELSE nflushed
    /\ UNCHANGED <<pc, exit_code, args_run, framework_ver, child_vars, nread,
                   output, stderr, isatty, fs, fmt_vars>>

sigint ==
    /\ pc # "exited"
    /\ interrupted' = TRUE
    /\ Exit(0, Append(written, sigint_msg))
    /\ UNCHANGED <<args_run, framework_ver, child_vars, nread, output,
                   stderr, isatty, fs, fmt_vars>>

(***************************************************************************)
(* The child process and the write end of its pipe (shell=True: a process  *)
(* the shell started can hold the pipe after the shell is gone).           *)
(***************************************************************************)
\* a writer writes one whole line
child_emit ==
    /\ pipe_open
    /\ pc # "exited"
    /\ Len(emitted) < MaxLines
    /\ \E l \in LifeLines : emitted' = Append(emitted, l \o <<"\n">>)
    /\ UNCHANGED <<child, child_status, pipe_open, pc, args_run,
                   framework_ver, nread, output, written, nflushed, stderr,
                   isatty, exit_code, interrupted, fs, fmt_vars>>

\* the last writer writes a text with no newline and closes the pipe
child_emit_partial ==
    /\ pipe_open
    /\ pc # "exited"
    /\ Len(emitted) < MaxLines
    /\ \E l \in LifeLines \ {<<>>} : emitted' = Append(emitted, l)
    /\ pipe_open' = FALSE
    /\ UNCHANGED <<child, child_status, pc, args_run, framework_ver, nread,
                   output, written, nflushed, stderr, isatty, exit_code,
                   interrupted, fs, fmt_vars>>

\* the last writer closes the pipe
child_close ==
    /\ pipe_open
    /\ pipe_open' = FALSE
    /\ UNCHANGED <<child, child_status, emitted, pc, args_run, framework_ver,
                   nread, output, written, nflushed, stderr, isatty,
                   exit_code, interrupted, fs, fmt_vars>>

\* the child exits with some status; its pipe may stay open in another
\* process
child_exit ==
    /\ child = "alive"
    /\ child' = "exited"
    /\ \E st \in 0..MaxStatus : child_status' = st
    /\ \E keep \in BOOLEAN : pipe_open' = (pipe_open /\ keep)
    /\ UNCHANGED <<emitted, pc, args_run, framework_ver, nread, output,
                   written, nflushed, stderr, isatty, exit_code, interrupted,
                   fs, fmt_vars>>

Next ==
    \/ get_args
    \/ find_project_file
    \/ get_framework_version
    \/ run_executable
    \/ select_compiler
    \/ build_popen
    \/ po_readline
    \/ po_test
    \/ po_body
    \/ po_return
    \/ run_readline
    \/ run_test
    \/ run_body
    \/ run_return
    \/ sigint
    \/ child_emit
    \/ child_emit_partial
    \/ child_close
    \/ child_exit

Spec ==
    Init /\ [][Next]_vars


(***************************************************************************)
(* The text functions on their own: one text has been read, and one turn   *)
(* of the loop of process_output matches, formats and prints it.  The text *)
(* is a concatenation of at most MaxChunks chunks, ended by a newline.     *)
(***************************************************************************)
at_in ==
    <<"a","t"," ","f","(",")"," ","i","n"," ">>

Chunks ==
    { <<"C",":","\\","a">>,
      <<"c",":","\\","b">>,
      <<"\\",".",".">>,
      <<"\\",".">>,
      <<"(","1",",","2",")">>,
      <<":"," ","e","r","r","o","r">>,
      <<" ">>,
      at_in,
      <<":","l","i","n","e"," ","4">>,
      <<"x">> }

RECURSIVE Flatten(_)
Flatten(seq) ==
    IF seq = <<>> THEN <<>> ELSE Head(seq) \o Flatten(Tail(seq))

FmtLines ==
    { Flatten(cs) \o <<"\n">> :
        cs \in UNION { [1..n -> Chunks] : n \in 0..MaxChunks } }

\* the filesystems: no symbolic link, or /mnt/c/a a link to /srv
FsChoices ==
    { {},
      { << << <<"m","n","t">>, <<"c">>, <<"a">> >>,
           << <<"s","r","v">> >> >> } }

\* the loop of process_output has read a text and is about to run its body
InitBody(filesystems) ==
    /\ pc = "po_body"
    /\ args_run = FALSE
    /\ framework_ver = "v4.8"
    /\ child = "alive"
    /\ child_status = -1
    /\ pipe_open = TRUE
    /\ output \in FmtLines
    /\ emitted = <<output>>
    /\ nread = 1
    /\ written = announce
    /\ nflushed = 0
    /\ stderr = <<>>
    /\ isatty = FALSE
    /\ exit_code = -1
    /\ interrupted = FALSE
    /\ fs \in filesystems
    /\ f_m = NoMatch
    /\ f_wsl = <<>>
    /\ f_out = <<>>
    /\ f_pc = "in"

\* on a filesystem with no symbolic link under the mounted paths
InitFmt ==
    InitBody({{}})

\* on any of the filesystems
InitFmtLinks ==
    InitBody(FsChoices)

\* lines 123-155 of process_output, with the match, wsl_path and the text
\* printed kept for inspection
process_line ==
    /\ f_pc = "in"
    /\ pc = "po_body"
    /\ f_m' = re_search(rstrip(output))
    /\ f_wsl' = IF f_m'.matched THEN wsl_path(f_m'.full_path, fs) ELSE <<>>
    /\ f_out' = printed(output, fs)
    /\ f_pc' = "out"
    /\ written' = print_to(written, f_out')
    /\ nflushed' = after_write(written, Len(written), f_out', FALSE)
    /\ pc' = "po_readline"
    /\ UNCHANGED <<args_run, framework_ver, child_vars, nread, output,
                   stderr, isatty, exit_code, interrupted, fs>>

NextFmt ==
    process_line

SpecFmt ==
    InitFmt /\ [][NextFmt]_vars

SpecFmtLinks ==
    InitFmtLinks /\ [][NextFmt]_vars


(***************************************************************************)
(* The properties.                                                         *)
(***************************************************************************)
tests ==
    {"po_test", "run_test"}

bodies ==
    {"po_body", "run_body"}

returns ==
    {"po_return", "run_return"}

\* what process_output has written: sys.stdout's texts after the two of
\* main, without the handler's
po_written ==
    LET last == IF interrupted THEN Len(written) - 1 ELSE Len(written)
    IN  SubSeq(written, Len(announce) + 1, last)

\* the text has one newline, its last character
OneLine(text) ==
    /\ text # <<>>
    /\ text[Len(text)] = "\n"
    /\ \A k \in 1..(Len(text) - 1) : text[k] # "\n"

\* C1: when a run that started a child process ends after its loop drained
\* the stream, the program's exit code is the child's exit status.
C1_ExitCodeIsChildStatus ==
    (pc = "exited" /\ child # "none" /\ ~ interrupted)
        => exit_code = child_status

\* C2: the read loops end only from an empty read with the child gone; an
\* empty read with the child alive does not end the loop and writes nothing,
\* a non-empty read does not end the loop, and when the loop ends every text
\* of the pipe has been read.
C2_LoopEndsOnlyAtEofOfDeadChild ==
    [][ /\ (pc \in tests /\ pc' \in returns)
              => (output = <<>> /\ child = "exited")
        /\ (pc \in tests /\ output = <<>> /\ child # "exited")
              => pc' \notin returns
        /\ (pc \in tests /\ output # <<>>)
              => pc' \notin returns
        /\ (pc \in bodies /\ output = <<>> /\ pc' # "exited")
              => written' = written
        /\ (pc' \in returns)
              => nread' = Len(emitted')
      ]_vars

\* C2's case: a text was read, then an empty read came with the child still
\* alive, and the loop went on to its body
C2_Witness ==
    /\ pc = "po_body"
    /\ output = <<>>
    /\ child = "alive"
    /\ nread >= 1

\* C3: process_output writes one text per text read, in the order read, the
\* k-th being the printed form of the k-th text of the child; each is one
\* line (only a last text the child left without newline, passed through,
\* has none); and once the loop has ended nothing the child wrote is missing.
C3_OneOutputPerInputInOrder ==
    (~ args_run /\ child # "none") =>
        /\ Len(po_written) \in {nread, nread - 1}
        /\ pc \in {"po_readline", "po_return"} => Len(po_written) = nread
        /\ \A k \in 1..Len(po_written) :
              /\ k <= Len(emitted)
              /\ po_written[k] = printed(emitted[k], fs)
              /\ OneLine(po_written[k])
                    \/ (k = Len(emitted) /\ ~ OneLine(emitted[k]))
        /\ (pc = "po_return" \/ (pc = "exited" /\ ~ interrupted))
              => Len(po_written) = Len(emitted)

\* C3's case: a run that ended after a matched diagnostic and then a
\* passed-through line were read and written
C3_Witness ==
    /\ pc = "exited"
    /\ ~ interrupted
    /\ ~ args_run
    /\ Len(emitted) = 2
    /\ re_search(rstrip(emitted[1])).matched
    /\ ~ re_search(rstrip(emitted[2])).matched
    /\ Len(po_written) = 2

\* C4: whenever process_output waits in readline after having written a
\* line, every text written so far has left sys.stdout's buffer.
C4_FlushedBeforeNextRead ==
    (pc = "po_readline" /\ nread >= 1) => nflushed = Len(written)

\* C5: a run that ends before a child process is started (and not by an
\* interrupt) ended on a pre-execution error: it has written to the error
\* stream and its exit code is 1; and a run that ends with exit code 1 has
\* started no child process.
C5_PreExecutionErrorOnStderr ==
    /\ (pc = "exited" /\ child = "none" /\ ~ interrupted)
          => (stderr # <<>> /\ exit_code = 1)
    /\ (pc = "exited" /\ exit_code = 1) => child = "none"

\* C6: the step in which SIGINT is handled writes the acknowledgement,
\* ends the program and leaves the child and its pipe as they are; after
\* it the program writes nothing more and stays ended.
C6_InterruptEndsProgramAtOnce ==
    [][ /\ (~ interrupted /\ interrupted')
              => /\ written' = Append(written, sigint_msg)
                 /\ nflushed' = Len(written')
                 /\ pc' = "exited"
                 /\ UNCHANGED <<child_vars, nread>>
        /\ interrupted
              => /\ interrupted'
                 /\ written' = written
                 /\ pc = "exited" /\ pc' = "exited"
      ]_vars

\* C6's case: the interrupt came in build mode between the read of the
\* second line and its printing, with the child still running
C6_Witness ==
    /\ interrupted
    /\ ~ args_run
    /\ child = "alive"
    /\ nread = 2
    /\ Len(po_written) = 1
    /\ pc = "exited"

\* the mounted path of a native path: the drive letter in lower case under
\* /mnt, the rest with "/" for every "\" and no leading "/"
MountedPath(native) ==
    LET rest  == [k \in 1..(Len(native) - 2) |->
                     IF native[k + 2] = "\\" THEN "/" ELSE native[k + 2]]
        first == FirstNotIn(rest, 1, {"/"})
    IN  <<"/","m","n","t","/", Lower(native[1]), "/">>
            \o SubSeq(rest, first, Len(rest))

\* the position suffix: line and column, the line alone, or nothing
PositionSuffix(line_num, col_num) ==
    IF line_num = <<>> THEN <<>>
    ELSE IF col_num = <<>> THEN <<":">> \o line_num
    ELSE <<":">> \o line_num \o <<":">> \o col_num

\* C7: a line matched as a standard diagnostic is printed as its mounted
\* path, the position suffix, ": " and the formatted message.
C7_DiagnosticPrintedForm ==
    (f_pc = "out" /\ f_m.matched)
        => f_out = MountedPath(f_m.full_path)
                       \o PositionSuffix(f_m.line, f_m.col)
                       \o <<":", " ">>
                       \o format_message(f_m.message, fs)
                       \o <<"\n">>

\* C8: in what is printed for a line that matched no diagnostic grammar no
\* native path (a letter, then ":" and "\") remains.
C8_NoNativePathRemains ==
    (f_pc = "out" /\ ~ f_m.matched)
        => ~ \E i \in 1..(Len(f_out) - 2) :
                 /\ f_out[i] \in (UpperCase \cup LowerCase)
                 /\ f_out[i + 1] = ":"
                 /\ f_out[i + 2] = "\\"

\* the native paths and line numbers of the stack-trace lines looked at
StackTracePaths ==
    { <<"C",":","\\","a">>, <<"c",":","\\","b">> }

StackTraceNumbers ==
    { <<"4">> }

\* C9: a line "at ... in <path>:line <N>" is matched as a diagnostic whose
\* path is <path>, whose line number is N, with no column, and is printed
\* with the mounted path and N.
C9_StackTraceLineRecognised ==
    \A p \in StackTracePaths, n \in StackTraceNumbers :
        (f_pc = "out"
            /\ rstrip(output) = at_in \o p \o <<":","l","i","n","e"," ">> \o n)
        => /\ f_m.matched
           /\ f_m.full_path = p
           /\ f_m.line = n
           /\ f_m.col = <<>>

\* the segments of a native path after its drive
NativeSegments(native) ==
    Split(SubSeq(native, 4, Len(native)), {"\\"})

\* C10: the mounted path of a matched diagnostic has the segments of the
\* native path in their order, whatever the filesystem; so has the path
\* printed for a line that is one native path and nothing else.
C10_SegmentsKept ==
    /\ (f_pc = "out" /\ f_m.matched)
          => f_wsl = << <<"m","n","t">>, <<Lower(f_m.full_path[1])>> >>
                         \o NativeSegments(f_m.full_path)
    /\ (f_pc = "out" /\ ~ f_m.matched
           /\ rstrip(output) # <<>>
           /\ windows_path_end(rstrip(output), 1) = Len(rstrip(output)))
          => f_out = MountedPath(rstrip(output)) \o <<"\n">>

=============================================================================
